---- MODULE Spec2Model ----
(***************************************************************************)
(* fancontrold (src/fancontrold/src/main.rs): a daemon that loads a        *)
(* configuration, acquires one GPIO output pin and then, once per period,  *)
(* reads the CPU temperature with `vcgencmd measure_temp`, switches the    *)
(* fan with a two-threshold rule and prints an overheat line when the      *)
(* overheat amount has moved by more than 5.0 degrees.                     *)
(*                                                                         *)
(* Numbers.  An f32 is a record [k, s, m, e]: k = "fin" for the finite     *)
(* value s * m * 2^e with sign s, significand m < 2^24 and exponent        *)
(* -149 <= e <= 104 (m >= 2^23 unless e = -149; both zeros are m = 0),     *)
(* k = "inf" with sign s, or k = "nan".  Parsing, subtraction and          *)
(* comparison are those of IEEE 754 binary32: results are rounded to the   *)
(* nearest f32, ties to even; every comparison with NaN is false;          *)
(* inf - inf is NaN.  Fin(n) is the f32 nearest to n / 10.                 *)
(*                                                                         *)
(* Text.  A string the program slices or parses is the sequence of its     *)
(* bytes: a one-character string for an ASCII byte, two hexadecimal        *)
(* digits for a byte from 128 on.                                          *)
(*                                                                         *)
(* Time.  The clock counts whole seconds from the start of main; the       *)
(* only thing that takes time is the sensor command of a tick.             *)
(***************************************************************************)
EXTENDS Integers, Sequences, FiniteSets, TLC

\* `loop` (line 131) has no bound of its own: it ends only when a read
\* fails.  The runs explored are its prefixes of at most this many ticks.
MaxTicks == 3

\* ------------------------------------------------------------------ f32

\* The exponent of the least significant bit of the smallest subnormal.
MinExp == -149

\* The exponent of the least significant bit of the largest finite value,
\* (2^24 - 1) * 2^104.
MaxExp == 104

\* A finite f32 is s * m * 2^e with s = 1 or -1 and 0 <= m < 2^24, kept
\* canonical: 2^23 <= m when e > MinExp, and e = MinExp for subnormals and
\* for the two zeros.
F32(s, m, e) == [k |-> "fin", s |-> s, m |-> m, e |-> e]

Zero(s) == F32(s, 0, MinExp)

Inf(s) == [k |-> "inf", s |-> s, m |-> 0, e |-> 0]

NaN == [k |-> "nan", s |-> 1, m |-> 0, e |-> 0]

PInf == Inf(1)

NInf == Inf(-1)

IsNaN(a) == a.k = "nan"

IsFinite(a) == a.k = "fin"

RECURSIVE BitLen(_)
\* The number of binary digits of n >= 0.
BitLen(n) == IF n = 0 THEN 0 ELSE 1 + BitLen(n \div 2)

\* The f32 s * m * 2^e for a rounded significand m <= 2^24 at e >= MinExp:
\* a carry out of the significand moves up one exponent, and a value past
\* the largest finite one is an infinity.
Pack(s, m, e) ==
    IF m = 0 THEN Zero(s)
    ELSE IF m = 2 ^ 24
    THEN (IF e + 1 > MaxExp THEN Inf(s) ELSE F32(s, 2 ^ 23, e + 1))
    ELSE IF e > MaxExp THEN Inf(s)
    ELSE F32(s, m, e)

\* Whether rounding to nearest, ties to even, goes up when the low `drop`
\* bits of n are cut; sticky says the exact value lies strictly above n.
RoundsUp(n, drop, sticky) ==
    LET q == n \div 2 ^ drop
        rem == n % 2 ^ drop
        half == 2 ^ (drop - 1)
    IN  IF sticky THEN rem >= half
        ELSE rem > half \/ (rem = half /\ q % 2 = 1)

\* The f32 nearest to s * x * 2^e (ties to even), for n <= x < n + 1 with
\* x = n unless sticky.  A sticky n must be wider than 24 bits.
RoundF32(s, n, e, sticky) ==
    LET wide == e + BitLen(n) - 24
        te == IF wide > MinExp THEN wide ELSE MinExp
        drop == te - e
    IN  IF drop <= 0 THEN Pack(s, n * 2 ^ (-drop), te)
        ELSE IF drop > 31 THEN Zero(s)
        ELSE IF drop = 31
        THEN Pack(s, IF n > 2 ^ 30 \/ (sticky /\ n = 2 ^ 30) THEN 1 ELSE 0, te)
        ELSE Pack(s, n \div 2 ^ drop
                       + (IF RoundsUp(n, drop, sticky) THEN 1 ELSE 0), te)

\* |a| < |b| for finite a and b.
MagLt(a, b) == a.e < b.e \/ (a.e = b.e /\ a.m < b.m)

\* a < b on f32
FLt(a, b) ==
    IF IsNaN(a) \/ IsNaN(b) THEN FALSE
    ELSE IF a.k = "inf" THEN a.s = -1 /\ ~(b.k = "inf" /\ b.s = -1)
    ELSE IF b.k = "inf" THEN b.s = 1
    ELSE IF a.m = 0 /\ b.m = 0 THEN FALSE
    ELSE IF a.s # b.s THEN a.s = -1
    ELSE IF a.s = 1 THEN MagLt(a, b)
    ELSE MagLt(b, a)

\* a > b on f32
FGt(a, b) == FLt(b, a)

\* a <= b on f32
FLe(a, b) == ~IsNaN(a) /\ ~IsNaN(b) /\ ~FLt(b, a)

\* a >= b on f32
FGe(a, b) == FLe(b, a)

\* x + y, or x - y when sub, on the magnitudes of finite x and y with
\* |x| >= |y| > 0, carrying the sign of x: y is aligned to x with three
\* extra bits, the bits shifted out are kept as sticky, and the sum is
\* rounded once.
AddMag(x, y, sub) ==
    LET shift == x.e - y.e
        yq == IF shift > 27 THEN 0 ELSE (y.m * 8) \div 2 ^ shift
        st == IF shift > 27 THEN TRUE ELSE (y.m * 8) % 2 ^ shift # 0
        n == IF sub THEN x.m * 8 - yq - (IF st THEN 1 ELSE 0)
             ELSE x.m * 8 + yq
    IN  IF n = 0 THEN Zero(1) ELSE RoundF32(x.s, n, x.e - 3, st)

\* a + b on f32
FAdd(a, b) ==
    IF IsNaN(a) \/ IsNaN(b) THEN NaN
    ELSE IF a.k = "inf" THEN (IF b.k = "inf" /\ b.s # a.s THEN NaN ELSE a)
    ELSE IF b.k = "inf" THEN b
    ELSE IF a.m = 0 /\ b.m = 0 THEN Zero(IF a.s = -1 /\ b.s = -1 THEN -1 ELSE 1)
    ELSE IF b.m = 0 THEN a
    ELSE IF a.m = 0 THEN b
    ELSE IF MagLt(a, b) THEN AddMag(b, a, a.s # b.s)
    ELSE AddMag(a, b, a.s # b.s)

\* -a on f32
FNeg(a) == IF IsNaN(a) THEN NaN ELSE [a EXCEPT !.s = -a.s]

\* a - b on f32
FSub(a, b) == FAdd(a, FNeg(b))

\* f32::abs
FAbs(a) == IF IsNaN(a) THEN NaN ELSE [a EXCEPT !.s = 1]

RECURSIVE Norm(_, _, _)
\* num / den = (num' / den') * 2^x with den' <= num' < 2 * den', for
\* 0 < num < 2^30 and 0 < den < 2^30.
Norm(num, den, x) ==
    IF num < den THEN Norm(2 * num, den, x - 1)
    ELSE IF num >= 2 * den THEN Norm(num, 2 * den, x + 1)
    ELSE [num |-> num, den |-> den, x |-> x]

RECURSIVE Quotient(_, _, _, _)
\* The next n binary digits of num / den after the digits q, for
\* num < 2 * den, and whether a remainder is left.
Quotient(num, den, q, n) ==
    IF n = 0 THEN [q |-> q, sticky |-> num # 0]
    ELSE IF num >= den THEN Quotient(2 * (num - den), den, 2 * q + 1, n - 1)
    ELSE Quotient(2 * num, den, 2 * q, n - 1)

\* The f32 nearest to s * num / den, for 0 < num < 2^30 and 0 < den < 2^30:
\* 26 binary digits of the quotient and the sticky bit, rounded once.
Ratio(s, num, den) ==
    LET nm == Norm(num, den, 0)
        qt == Quotient(nm.num, nm.den, 0, 26)
    IN  RoundF32(s, qt.q, nm.x - 25, qt.sticky)

\* The f32 of the decimal literal with n tenths: Fin(603) is 60.3_f32.
Fin(n) ==
    IF n = 0 THEN Zero(1)
    ELSE IF n < 0 THEN Ratio(-1, -n, 10)
    ELSE Ratio(1, n, 10)

\* --------------------------------------------------------------- Option

None == <<>>

Some(x) == <<x>>

IsSome(o) == Len(o) = 1

IsNone(o) == Len(o) = 0

Unwrap(o) == o[1]

\* ---------------------------------------------------------------- Config

\* impl Default for Config
DefaultConfig ==
    [gpio_pin |-> 17, interval |-> 15,
     on_threshold |-> Fin(600), off_threshold |-> Fin(500)]

Ok(x) == [tag |-> "Ok", val |-> x]

Err(e) == [tag |-> "Err", val |-> e]

InvalidThresholdRange(off, on) ==
    [err |-> "InvalidThresholdRange", off_threshold |-> off, on_threshold |-> on]

ConfyError == [err |-> "ConfyError"]

\* Config::validated
validated(self) ==
    LET c == IF self.interval = 0
             THEN [self EXCEPT !.interval = DefaultConfig.interval]
             ELSE self
    IN  IF FGe(c.off_threshold, c.on_threshold)
        THEN Err(InvalidThresholdRange(c.off_threshold, c.on_threshold))
        ELSE Ok(c)

\* A setting of the configuration file as written: an integer or some other
\* TOML value (a string, say).
IntSetting(n) == [k |-> "int", v |-> n]

StrSetting == [k |-> "str", v |-> 0]

\* serde's deserialisation of a u8 field (gpio_pin).
IsU8(s) == s.k = "int" /\ s.v >= 0 /\ s.v < 2 ^ 8

\* serde's deserialisation of a u64 field (interval); the integers of the
\* model stay far below 2^64.
IsU64(s) == s.k = "int" /\ s.v >= 0

\* confy::load_path::<Config>: a missing file yields Config::default(); a
\* present one is deserialised into the typed fields or fails.
load_path(file) ==
    IF ~file.present THEN Ok(DefaultConfig)
    ELSE IF IsU8(file.gpio_pin) /\ IsU64(file.interval)
    THEN Ok([gpio_pin |-> file.gpio_pin.v, interval |-> file.interval.v,
             on_threshold |-> file.on_threshold,
             off_threshold |-> file.off_threshold])
    ELSE Err(ConfyError)

\* Config::load without the call of validated
load_unvalidated(file) == load_path(file)

\* Config::load: confy::load_path(CONFIG_PATH)?.validated()
load(file) ==
    LET r == load_path(file)
    IN  IF r.tag = "Err" THEN r ELSE validated(r.val)

\* ------------------------------------------------------ read_temperature

\* A text is the sequence of its bytes.  A byte below 128 is the
\* one-character string of its ASCII character; a byte n >= 128 is the
\* two-character string of its hexadecimal digits.
HexDigits ==
    <<"0", "1", "2", "3", "4", "5", "6", "7", "8", "9",
      "A", "B", "C", "D", "E", "F">>

Byte(n) == HexDigits[(n \div 16) + 1] \o HexDigits[(n % 16) + 1]

Bytes(lo, hi) == {Byte(n) : n \in lo..hi}

NonAscii == Bytes(128, 255)

\* The bytes 10xxxxxx that continue a UTF-8 sequence.
Continuation == Bytes(128, 191)

TwoByteLead == Bytes(194, 223)

ThreeByteLead == Bytes(224, 239)

FourByteLead == Bytes(240, 244)

\* utf8_char_width: the length of the UTF-8 sequence that byte c starts,
\* 0 when c cannot start one.
utf8_char_width(c) ==
    IF c \notin NonAscii THEN 1
    ELSE IF c \in TwoByteLead THEN 2
    ELSE IF c \in ThreeByteLead THEN 3
    ELSE IF c \in FourByteLead THEN 4
    ELSE 0

\* The bytes that may follow the lead byte c of a sequence of two or more.
SecondByte(c) ==
    CASE c = "E0" -> Bytes(160, 191)
      [] c = "ED" -> Bytes(128, 159)
      [] c = "F0" -> Bytes(144, 191)
      [] c = "F4" -> Bytes(128, 143)
      [] OTHER -> Continuation

\* The byte of b at position i, the byte 0 (written "00") past the end.
safe_get(b, i) == IF i <= Len(b) THEN b[i] ELSE "00"

\* The chunk of b at position i: a well-formed character of n bytes, or
\* the n bytes of an ill-formed sequence up to the first byte that does
\* not fit.
Utf8Chunk(b, i) ==
    LET w == utf8_char_width(b[i])
    IN  IF w = 1 THEN [valid |-> TRUE, n |-> 1]
        ELSE IF w = 0 \/ safe_get(b, i + 1) \notin SecondByte(b[i])
        THEN [valid |-> FALSE, n |-> 1]
        ELSE IF w = 2 THEN [valid |-> TRUE, n |-> 2]
        ELSE IF safe_get(b, i + 2) \notin Continuation
        THEN [valid |-> FALSE, n |-> 2]
        ELSE IF w = 3 THEN [valid |-> TRUE, n |-> 3]
        ELSE IF safe_get(b, i + 3) \notin Continuation
        THEN [valid |-> FALSE, n |-> 3]
        ELSE [valid |-> TRUE, n |-> 4]

\* U+FFFD REPLACEMENT CHARACTER in UTF-8.
Replacement == <<"EF", "BF", "BD">>

RECURSIVE LossyFrom(_, _)
LossyFrom(b, i) ==
    IF i > Len(b) THEN <<>>
    ELSE LET ch == Utf8Chunk(b, i)
         IN  (IF ch.valid THEN SubSeq(b, i, i + ch.n - 1) ELSE Replacement)
             \o LossyFrom(b, i + ch.n)

\* String::from_utf8_lossy: the bytes as UTF-8, each ill-formed sequence
\* replaced by U+FFFD.
from_utf8_lossy(b) == LossyFrom(b, 1)

\* str::is_char_boundary for the byte index i (counted from 0).
is_char_boundary(s, i) ==
    i = 0 \/ i = Len(s) \/ (0 < i /\ i < Len(s) /\ s[i + 1] \notin Continuation)

Prefix == <<"t", "e", "m", "p", "=">>

Suffix == <<"'", "C", "\n">>

Digits == <<"0", "1", "2", "3", "4", "5", "6", "7", "8", "9">>

DigitSet == {Digits[d] : d \in 1..Len(Digits)}

IsDigit(c) == c \in DigitSet

DigitVal(c) ==
    CASE c = "0" -> 0 [] c = "1" -> 1 [] c = "2" -> 2 [] c = "3" -> 3
      [] c = "4" -> 4 [] c = "5" -> 5 [] c = "6" -> 6 [] c = "7" -> 7
      [] c = "8" -> 8 [] c = "9" -> 9

\* ASCII lower case of the letters that matter to the float grammar.
Lower(c) ==
    CASE c = "I" -> "i" [] c = "N" -> "n" [] c = "F" -> "f" [] c = "A" -> "a"
      [] c = "T" -> "t" [] c = "Y" -> "y" [] c = "E" -> "e" [] OTHER -> c

\* The number of consecutive digits of s from position i on.
DigitRun(s, i) ==
    LET stop == {j \in i..Len(s) : ~IsDigit(s[j])}
    IN  IF stop = {} THEN (IF i > Len(s) THEN 0 ELSE Len(s) - i + 1)
        ELSE (CHOOSE j \in stop : \A l \in stop : j <= l) - i

RECURSIVE DigitsValue(_)
\* The value of a sequence of at most 9 digits (0 for the empty one).
DigitsValue(ds) ==
    IF ds = <<>> THEN 0
    ELSE 10 * DigitsValue(SubSeq(ds, 1, Len(ds) - 1)) + DigitVal(ds[Len(ds)])

RECURSIVE ExponentValue(_, _, _)
\* The value of the digits of an exponent from position i on, as
\* parse_scientific accumulates it: it stops growing at 0x10000.
ExponentValue(ds, i, acc) ==
    IF i > Len(ds) THEN acc
    ELSE ExponentValue(ds, i + 1,
             IF acc < 65536 THEN 10 * acc + DigitVal(ds[i]) ELSE acc)

RECURSIVE Significant(_)
\* The digits ds without their leading zeros.
Significant(ds) ==
    IF ds # <<>> /\ ds[1] = "0" THEN Significant(Tail(ds)) ELSE ds

\* The mantissa of a decimal at the head of b: digits [. digits].  n1 and
\* n2 count the digits before and after the point, len is what it spans.
Mantissa(b) ==
    LET n1 == DigitRun(b, 1)
        dot == n1 + 1 <= Len(b) /\ b[n1 + 1] = "."
        n2 == IF dot THEN DigitRun(b, n1 + 2) ELSE 0
    IN  [n1 |-> n1, n2 |-> n2, len |-> n1 + (IF dot THEN 1 ELSE 0) + n2,
         digits |-> SubSeq(b, 1, n1) \o SubSeq(b, n1 + 2, n1 + 1 + n2)]

\* The exponent of a decimal from position m + 1 of b on: (e|E) [sign] digits.
\* has: there is an e; n: its digits; val: its value; len: what it spans.
Exponent(b, m) ==
    LET has == m + 1 <= Len(b) /\ Lower(b[m + 1]) = "e"
        sign == IF has /\ m + 2 <= Len(b) /\ b[m + 2] \in {"+", "-"}
                THEN <<b[m + 2]>> ELSE <<>>
        from == m + 2 + Len(sign)
        n == IF has THEN DigitRun(b, from) ELSE 0
        mag == ExponentValue(SubSeq(b, from, from + n - 1), 1, 0)
    IN  [has |-> has, n |-> n,
         val |-> IF sign = <<"-">> THEN -mag ELSE mag,
         len |-> IF has THEN 1 + Len(sign) + n ELSE 0]

\* A natural number of any size: its digits in base 10^4, least significant
\* first, without leading zeros (<<>> is 0).
Base == 10000

\* The decimal digit of weight 10^(p - 1) of the number written ds.
DigitAt(ds, p) == IF p <= Len(ds) THEN DigitVal(ds[Len(ds) - p + 1]) ELSE 0

BigOf(ds) ==
    [i \in 1..((Len(ds) + 3) \div 4) |->
        DigitAt(ds, 4 * i - 3) + 10 * DigitAt(ds, 4 * i - 2)
        + 100 * DigitAt(ds, 4 * i - 1) + 1000 * DigitAt(ds, 4 * i)]

\* a < b
BigLt(a, b) ==
    IF Len(a) # Len(b) THEN Len(a) < Len(b)
    ELSE \E i \in 1..Len(a) :
             a[i] < b[i] /\ \A j \in (i + 1)..Len(a) : a[j] = b[j]

RECURSIVE BigTimesFrom(_, _, _, _)
BigTimesFrom(a, k, i, carry) ==
    IF i > Len(a) /\ carry = 0 THEN <<>>
    ELSE LET d == (IF i <= Len(a) THEN k * a[i] ELSE 0) + carry
         IN  <<d % Base>> \o BigTimesFrom(a, k, i + 1, d \div Base)

\* k * a for 0 < k <= 2^17
BigTimes(a, k) == BigTimesFrom(a, k, 1, 0)

\* 2 * a
BigDouble(a) == BigTimes(a, 2)

\* a * 10^n for a # 0.
BigTimesPow10(a, n) == [i \in 1..(n \div 4) |-> 0] \o BigTimes(a, 10 ^ (n % 4))

RECURSIVE BigTrim(_)
BigTrim(a) ==
    IF a # <<>> /\ a[Len(a)] = 0 THEN BigTrim(SubSeq(a, 1, Len(a) - 1)) ELSE a

RECURSIVE BigSubFrom(_, _, _, _)
BigSubFrom(a, b, i, borrow) ==
    IF i > Len(a) THEN <<>>
    ELSE LET d == a[i] - (IF i <= Len(b) THEN b[i] ELSE 0) - borrow
         IN  <<(d + Base) % Base>>
             \o BigSubFrom(a, b, i + 1, IF d < 0 THEN 1 ELSE 0)

\* a - b for a >= b
BigSub(a, b) == BigTrim(BigSubFrom(a, b, 1, 0))

RECURSIVE BigNorm(_, _, _)
\* Norm on numbers of any size, sixteen doublings at a time while the
\* two are far apart.
BigNorm(num, den, x) ==
    IF BigLt(num, den)
    THEN (IF BigLt(BigTimes(num, 2 ^ 16), den)
          THEN BigNorm(BigTimes(num, 2 ^ 16), den, x - 16)
          ELSE BigNorm(BigDouble(num), den, x - 1))
    ELSE IF ~BigLt(num, BigDouble(den))
    THEN (IF ~BigLt(num, BigTimes(den, 2 ^ 17))
          THEN BigNorm(num, BigTimes(den, 2 ^ 16), x + 16)
          ELSE BigNorm(num, BigDouble(den), x + 1))
    ELSE [num |-> num, den |-> den, x |-> x]

RECURSIVE BigQuotient(_, _, _, _)
\* Quotient on numbers of any size.
BigQuotient(num, den, q, n) ==
    IF n = 0 THEN [q |-> q, sticky |-> num # <<>>]
    ELSE IF ~BigLt(num, den)
    THEN BigQuotient(BigDouble(BigSub(num, den)), den, 2 * q + 1, n - 1)
    ELSE BigQuotient(BigDouble(num), den, 2 * q, n - 1)

\* Ratio on numbers of any size.
BigRatio(s, num, den) ==
    LET nm == BigNorm(num, den, 0)
        qt == BigQuotient(nm.num, nm.den, 0, 26)
    IN  RoundF32(s, qt.q, nm.x - 25, qt.sticky)

\* The f32 nearest to s * d * 10^scale, where d is the number with the
\* digits ds (no leading zero): 0 below 10^-46 < 2^-150, an infinity from
\* 10^39 > 2^128 on, and the correctly rounded quotient in between.
dec2flt(s, ds, scale) ==
    IF ds = <<>> \/ Len(ds) + scale <= -46 THEN Zero(s)
    ELSE IF Len(ds) - 1 + scale >= 39 THEN Inf(s)
    ELSE IF Len(ds) <= 9 /\ scale <= 0 /\ scale >= -9
    THEN Ratio(s, DigitsValue(ds), 10 ^ (-scale))
    ELSE IF scale > 0 /\ Len(ds) + scale <= 9
    THEN Ratio(s, DigitsValue(ds) * 10 ^ scale, 1)
    ELSE IF scale >= 0
    THEN BigRatio(s, BigTimesPow10(BigOf(ds), scale), <<1>>)
    ELSE BigRatio(s, BigOf(ds), BigTimesPow10(<<1>>, -scale))

\* <f32 as FromStr>::from_str: [sign] (nan | inf | infinity | decimal), where
\* decimal is digits [. digits] [(e|E) [sign] digits] with at least one
\* mantissa digit, and the whole string is consumed.  None on failure.
ParseF32(s) ==
    LET neg == Len(s) > 0 /\ s[1] = "-"
        b == IF Len(s) > 0 /\ s[1] \in {"+", "-"} THEN Tail(s) ELSE s
        low == [i \in 1..Len(b) |-> Lower(b[i])]
        mt == Mantissa(b)
        ex == Exponent(b, mt.len)
    IN  IF low = <<"n", "a", "n">> THEN Some(NaN)
        ELSE IF low = <<"i", "n", "f">>
                \/ low = <<"i", "n", "f", "i", "n", "i", "t", "y">>
        THEN Some(IF neg THEN NInf ELSE PInf)
        ELSE IF mt.n1 + mt.n2 >= 1 /\ (ex.has => ex.n >= 1)
                /\ mt.len + ex.len = Len(b)
        THEN Some(dec2flt(IF neg THEN -1 ELSE 1, Significant(mt.digits),
                          ex.val - mt.n2))
        ELSE None

\* The outcome of a call that unwinds instead of returning.
Panic == [tag |-> "Panic", val |-> [err |-> "panic"]]

CommandOutputError == [err |-> "CommandOutputError"]

ParseError(raw) == [err |-> "ParseError", raw |-> raw]

\* read_temperature, given what running `vcgencmd measure_temp` produced:
\* cmd.io = "err" when the command could not be run, else cmd.stdout.  The
\* slice panics when its end comes before its start and when either index
\* falls inside a character.
read_temperature(cmd) ==
    IF cmd.io = "err" THEN Err(CommandOutputError)
    ELSE LET output == from_utf8_lossy(cmd.stdout)
             from == Len(Prefix)
             to == Len(output) - Len(Suffix)
         IN  IF to < from
                \/ ~is_char_boundary(output, from)
                \/ ~is_char_boundary(output, to)
             THEN Panic
             ELSE LET temp_str == SubSeq(output, from + 1, to)
                      parsed == ParseF32(temp_str)
                  IN  IF IsSome(parsed) THEN Ok(Unwrap(parsed))
                      ELSE Err(ParseError(output))

\* --------------------------------------------------------- the loop body

\* The third argument of the closure call in the loop: 5.0
max_change == Fin(50)

FanOff(t) == [ev |-> "fan_off", temp |-> t]

Overheat(t) == [ev |-> "overheat", temp |-> t]

\* controller with >= in place of > at on_threshold
controller_on_ge(on_threshold, off_threshold, level, temp) ==
    IF level = "Low" /\ FGe(temp, on_threshold)
    THEN [level |-> "High", writes |-> <<"High">>, events |-> <<>>]
    ELSE IF level = "High" /\ FLt(temp, off_threshold)
    THEN [level |-> "Low", writes |-> <<"Low">>, events |-> <<FanOff(temp)>>]
    ELSE [level |-> level, writes |-> <<>>, events |-> <<>>]

\* controller with <= in place of < at off_threshold
controller_off_le(on_threshold, off_threshold, level, temp) ==
    IF level = "Low" /\ FGt(temp, on_threshold)
    THEN [level |-> "High", writes |-> <<"High">>, events |-> <<>>]
    ELSE IF level = "High" /\ FLe(temp, off_threshold)
    THEN [level |-> "Low", writes |-> <<"Low">>, events |-> <<FanOff(temp)>>]
    ELSE [level |-> level, writes |-> <<>>, events |-> <<>>]

\* controller that does not read the level back before it writes
controller_blind(on_threshold, off_threshold, level, temp) ==
    IF FGt(temp, on_threshold)
    THEN [level |-> "High", writes |-> <<"High">>, events |-> <<>>]
    ELSE IF FLt(temp, off_threshold)
    THEN [level |-> "Low", writes |-> <<"Low">>, events |-> <<FanOff(temp)>>]
    ELSE [level |-> level, writes |-> <<>>, events |-> <<>>]

\* controller with one threshold: off as soon as the reading is below
\* on_threshold
controller_single(on_threshold, off_threshold, level, temp) ==
    IF level = "Low" /\ FGt(temp, on_threshold)
    THEN [level |-> "High", writes |-> <<"High">>, events |-> <<>>]
    ELSE IF level = "High" /\ FLt(temp, on_threshold)
    THEN [level |-> "Low", writes |-> <<"Low">>, events |-> <<FanOff(temp)>>]
    ELSE [level |-> level, writes |-> <<>>, events |-> <<>>]

\* controller with > in place of < at off_threshold
controller_off_gt(on_threshold, off_threshold, level, temp) ==
    IF level = "Low" /\ FGt(temp, on_threshold)
    THEN [level |-> "High", writes |-> <<"High">>, events |-> <<>>]
    ELSE IF level = "High" /\ FGt(temp, off_threshold)
    THEN [level |-> "Low", writes |-> <<"Low">>, events |-> <<FanOff(temp)>>]
    ELSE [level |-> level, writes |-> <<>>, events |-> <<>>]

\* controller without the branch that turns the fan on
controller_off_only(on_threshold, off_threshold, level, temp) ==
    IF level = "High" /\ FLt(temp, off_threshold)
    THEN [level |-> "Low", writes |-> <<"Low">>, events |-> <<FanOff(temp)>>]
    ELSE [level |-> level, writes |-> <<>>, events |-> <<>>]

\* The if / else-if of the loop on the level read back from the pin:
\* the level it leaves, the writes it made and the lines it printed.
controller(on_threshold, off_threshold, level, temp) ==
    IF level = "Low" /\ FGt(temp, on_threshold)
    THEN [level |-> "High", writes |-> <<"High">>, events |-> <<>>]
    ELSE IF level = "High" /\ FLt(temp, off_threshold)
    THEN [level |-> "Low", writes |-> <<"Low">>, events |-> <<FanOff(temp)>>]
    ELSE [level |-> level, writes |-> <<>>, events |-> <<>>]

\* The closure without the reset of its state below on_threshold
do_if_overheat_no_reset(on_threshold, last, temp, maxc) ==
    LET overheat_amount == FSub(temp, on_threshold)
        within == IsSome(last)
                  /\ FLe(FAbs(FSub(Unwrap(last), overheat_amount)), maxc)
    IN  IF FLt(temp, on_threshold) THEN [last |-> last, events |-> <<>>]
        ELSE IF ~within
        THEN [last |-> Some(overheat_amount), events |-> <<Overheat(temp)>>]
        ELSE [last |-> last, events |-> <<>>]

\* The closure with < in place of <= in the filter: a change equal to
\* max_change counts as exceeding it
do_if_overheat_strict(on_threshold, last, temp, maxc) ==
    LET overheat_amount == FSub(temp, on_threshold)
        within == IsSome(last)
                  /\ FLt(FAbs(FSub(Unwrap(last), overheat_amount)), maxc)
    IN  IF FLt(temp, on_threshold) THEN [last |-> None, events |-> <<>>]
        ELSE IF ~within
        THEN [last |-> Some(overheat_amount), events |-> <<Overheat(temp)>>]
        ELSE [last |-> last, events |-> <<>>]

\* The closure do_if_overheat_change_exceeds_value on its captured state
\* `last`: the new state and the calls of f (each prints an overheat line).
do_if_overheat_change_exceeds_value(on_threshold, last, temp, maxc) ==
    LET is_not_overheating == FLt(temp, on_threshold)
        overheat_amount == FSub(temp, on_threshold)
        overheat_change ==
            IF IsSome(last) THEN Some(FAbs(FSub(Unwrap(last), overheat_amount)))
            ELSE None
        filtered ==
            IF IsSome(overheat_change) /\ FLe(Unwrap(overheat_change), maxc)
            THEN overheat_change ELSE None
        exceeded_max_change == IsNone(filtered)
    IN  IF is_not_overheating THEN [last |-> None, events |-> <<>>]
        ELSE IF exceeded_max_change
        THEN [last |-> Some(overheat_amount), events |-> <<Overheat(temp)>>]
        ELSE [last |-> last, events |-> <<>>]

\* The loop body's first statement (lines 136-142) on the state s the body
\* works on: the pin's level, the closure's state, and what the body has
\* written and printed so far.
ControllerStep(c, s, temp) ==
    LET hc == controller(c.on_threshold, c.off_threshold, s.level, temp)
    IN  [level |-> hc.level, last |-> s.last,
         writes |-> s.writes \o hc.writes, events |-> s.events \o hc.events]

\* DebouncerStep whose closure only alerts while it finds the fan on
DebouncerStep_gated(c, s, temp) ==
    LET db == do_if_overheat_change_exceeds_value(
                  c.on_threshold, s.last, temp, max_change)
    IN  IF s.level = "High"
        THEN [level |-> s.level, last |-> db.last,
              writes |-> s.writes, events |-> s.events \o db.events]
        ELSE s

\* The loop body's second statement (line 144): the call of the closure.
DebouncerStep(c, s, temp) ==
    LET db == do_if_overheat_change_exceeds_value(
                  c.on_threshold, s.last, temp, max_change)
    IN  [level |-> s.level, last |-> db.last,
         writes |-> s.writes, events |-> s.events \o db.events]

\* Lines 136-144 in the order of the source.
LoopBody(c, s, temp) == DebouncerStep(c, ControllerStep(c, s, temp), temp)

\* interval.tick().await (line 132) completes at the scheduled deadline, or
\* at once when the deadline has already passed.
tick_completes(clock, timeout) == IF clock > timeout THEN clock ELSE timeout

\* The deadline the interval schedules after a tick that was due at
\* timeout: the interval of line 91 is built with the default
\* MissedTickBehavior (Burst), which keeps the schedule timeout + period
\* whether or not that instant has already passed.
next_timeout(timeout, p) == timeout + p

\* ------------------------------------------------------------------ state

VARIABLES
    pc,                    \* where main is: load, interval, gpio, loop, exit
    file,                  \* the configuration file main finds
    cfg,                   \* Option: the Config that Config::load returned
    period,                \* Option: the period of the tokio interval
    fan_pin,               \* none, Low, High, released: the output pin's level
    last_overheat_amount,  \* Option: the closure's captured state
    now,                   \* the clock, in seconds since main started
    deadline,              \* the instant the interval's next tick is due
    ticks,                 \* history: one record per iteration of the loop
    exit                   \* Option: how main ended

vars == <<pc, file, cfg, period, fan_pin, last_overheat_amount, now, deadline,
          ticks, exit>>

\* main up to line 89: Config::load()?
Load ==
    /\ pc = "load"
    /\ LET r == load(file)
       IN  IF r.tag = "Ok"
           THEN cfg' = Some(r.val) /\ pc' = "interval" /\ exit' = exit
           ELSE cfg' = cfg /\ pc' = "exit" /\ exit' = Some(r)
    /\ UNCHANGED <<file, period, fan_pin, last_overheat_amount, now, deadline,
                   ticks>>

\* main line 91: time::interval(Duration::from_secs(period)), which panics
\* on a zero period.  The first tick of the interval is due at once.
MakeInterval ==
    /\ pc = "interval"
    /\ IF Unwrap(cfg).interval = 0
       THEN period' = period /\ pc' = "exit" /\ exit' = Some(Panic)
       ELSE period' = Some(Unwrap(cfg).interval) /\ pc' = "gpio" /\ exit' = exit
    /\ deadline' = now
    /\ UNCHANGED <<file, cfg, fan_pin, last_overheat_amount, now, ticks>>

GpioError == [err |-> "GpioError"]

\* main line 92: Gpio::new()?.get(gpio_pin)?.into_output().  The pin keeps
\* the level it has; line 108 then creates the closure's state.
AcquireGpio ==
    /\ pc = "gpio"
    /\ \E got \in {"Low", "High", "unavailable"} :
          IF got = "unavailable"
          THEN fan_pin' = fan_pin /\ pc' = "exit" /\ exit' = Some(Err(GpioError))
          ELSE fan_pin' = got /\ pc' = "loop" /\ exit' = exit
    /\ last_overheat_amount' = None
    /\ UNCHANGED <<file, cfg, period, now, deadline, ticks>>

\* One iteration of the loop (lines 131-145): interval.tick() completes,
\* the sensor command produces cmd after `took` seconds, and the body runs
\* on the reading; a failed read leaves main through `?`, which drops the
\* pin.
TickOn(cmd, took) ==
    \E r \in {read_temperature(cmd)}, at \in {tick_completes(now, deadline)} :
        /\ deadline' = next_timeout(deadline, Unwrap(period))
        /\ now' = at + took
        /\ IF r.tag = "Ok"
           THEN \E s \in {LoopBody(Unwrap(cfg),
                                   [level |-> fan_pin,
                                    last |-> last_overheat_amount,
                                    writes |-> <<>>, events |-> <<>>],
                                   r.val)} :
                /\ fan_pin' = s.level
                /\ last_overheat_amount' = s.last
                /\ ticks' = Append(ticks,
                       [cmd |-> cmd, read |-> r, at |-> at, took |-> took,
                        before |-> fan_pin, after |-> s.level,
                        writes |-> s.writes, events |-> s.events,
                        last_before |-> last_overheat_amount,
                        last_after |-> s.last])
                /\ UNCHANGED <<pc, exit>>
           ELSE /\ fan_pin' = "released"
                /\ last_overheat_amount' = last_overheat_amount
                /\ ticks' = Append(ticks,
                       [cmd |-> cmd, read |-> r, at |-> at, took |-> took,
                        before |-> fan_pin, after |-> "released",
                        writes |-> <<>>, events |-> <<>>,
                        last_before |-> last_overheat_amount,
                        last_after |-> last_overheat_amount])
                /\ pc' = "exit"
                /\ exit' = Some(r)

\* One iteration of `loop` with any output and duration of the sensor
\* command.  The code has no counterpart of max: it cuts the runs explored.
Tick(cmds, max, bodies) ==
    /\ pc = "loop"
    /\ Len(ticks) < max
    /\ \E cmd \in cmds, took \in bodies : TickOn(cmd, took)
    /\ UNCHANGED <<file, cfg, period>>

InitWith(files) ==
    /\ pc = "load"
    /\ file \in files
    /\ cfg = None
    /\ period = None
    /\ fan_pin = "none"
    /\ last_overheat_amount = None
    /\ now = 0
    /\ deadline = 0
    /\ ticks = <<>>
    /\ exit = None

\* ------------------------------------------------------------ environment

RECURSIVE ToDigits(_)
ToDigits(n) ==
    IF n < 10 THEN <<Digits[n + 1]>>
    ELSE ToDigits(n \div 10) \o <<Digits[(n % 10) + 1]>>

Ran(text) == [io |-> "ok", stdout |-> text]

CannotRun == [io |-> "err", stdout |-> <<>>]

\* What `vcgencmd measure_temp` prints for t tenths of a degree (t >= 0).
Vcgencmd(t) ==
    Ran(Prefix \o ToDigits(t \div 10) \o <<".", Digits[(t % 10) + 1]>> \o Suffix)

\* Readings around the default thresholds 50.0 and 60.0, in tenths.  60.3
\* and 65.3 are not f32 values: read as f32 they are more than 5.0 apart,
\* although the decimals are exactly 5.0 apart.
Temps == {450, 500, 550, 600, 603, 650, 653}

Garbage == <<"g", "a", "r", "b", "a", "g", "e">>

SensorOutputs ==
    {Vcgencmd(t) : t \in Temps}
    \cup {Ran(Prefix \o <<"N", "a", "N">> \o Suffix),
          Ran(Prefix \o <<"i", "n", "f">> \o Suffix),
          Ran(Prefix \o <<"a", "b", "c">> \o Suffix),
          Ran(Garbage),
          CannotRun}

\* How long the sensor command takes, in seconds: a command that answers
\* within the second.
Prompt == {0}

NoFile ==
    [present |-> FALSE, gpio_pin |-> StrSetting, interval |-> StrSetting,
     on_threshold |-> NaN, off_threshold |-> NaN]

\* The (on_threshold, off_threshold) pairs of the configuration files.
ThresholdPairs ==
    {<<Fin(600), Fin(500)>>, <<Fin(600), Fin(600)>>, <<Fin(600), Fin(700)>>,
     <<NaN, Fin(500)>>}

ConfigFiles ==
    {NoFile} \cup
    {[present |-> TRUE, gpio_pin |-> g, interval |-> i,
      on_threshold |-> th[1], off_threshold |-> th[2]] :
        g \in {IntSetting(4), IntSetting(256)},
        i \in {IntSetting(0), IntSetting(30), IntSetting(-5), StrSetting},
        th \in ThresholdPairs}

Init == InitWith(ConfigFiles)

Next ==
    \/ Load
    \/ MakeInterval
    \/ AcquireGpio
    \/ Tick(SensorOutputs, MaxTicks, Prompt)

Spec == Init /\ [][Next]_vars

\* The runs of the two worked examples: the default thresholds 60.0 and
\* 50.0, and the sensor printing readings of the example in any order.
HysteresisTrace == <<650, 550, 650, 450, 650>>

DebounceTrace == <<610, 620, 630, 690, 580, 700>>

TraceOutputs(tr) == {Vcgencmd(tr[i]) : i \in 1..Len(tr)}

DefaultFiles == {NoFile}

InitDefault == InitWith(DefaultFiles)

NextHysteresis ==
    \/ Load
    \/ MakeInterval
    \/ AcquireGpio
    \/ Tick(TraceOutputs(HysteresisTrace), Len(HysteresisTrace), Prompt)

SpecHysteresis == InitDefault /\ [][NextHysteresis]_vars

NextDebounce ==
    \/ Load
    \/ MakeInterval
    \/ AcquireGpio
    \/ Tick(TraceOutputs(DebounceTrace), Len(DebounceTrace), Prompt)

SpecDebounce == InitDefault /\ [][NextDebounce]_vars

\* The default configuration with every output of the sensor.
NextDefault ==
    \/ Load
    \/ MakeInterval
    \/ AcquireGpio
    \/ Tick(SensorOutputs, MaxTicks, Prompt)

SpecDefault == InitDefault /\ [][NextDefault]_vars

\* Texts the sensor command can print: the spec's two examples, a reading
\* with two decimals and one beyond the range of f32, texts too short to
\* hold the prefix and the suffix, texts of the right length that deviate
\* in the prefix, in the suffix or in the middle, a text whose fifth byte
\* starts a two-byte character, and a text that is not UTF-8.
ParserTexts ==
    {Prefix \o <<"4", "2", ".", "8">> \o Suffix,
     Prefix \o <<"6", "5", ".", "0">> \o Suffix,
     Prefix \o <<"4", "2", ".", "8", "7">> \o Suffix,
     Prefix \o <<"1", "e", "3", "9">> \o Suffix,
     <<"t", "e", "m", "p", Byte(195), Byte(169), "4", "2", ".", "8">> \o Suffix,
     Prefix \o <<Byte(255)>> \o Suffix,
     Garbage,
     <<>>,
     Prefix \o Suffix,
     Prefix \o <<"a", "b", "c">> \o Suffix,
     <<"x", "x", "x", "x", "x", "6", "5", ".", "0">> \o Suffix,
     Prefix \o <<"5", "5", ".", "0", "'", "F", "\n">>}

ParserOutputs == {Ran(text) : text \in ParserTexts} \cup {CannotRun}

\* The default configuration with the sensor printing any of ParserTexts.
NextParser ==
    \/ Load
    \/ MakeInterval
    \/ AcquireGpio
    \/ Tick(ParserOutputs, MaxTicks, Prompt)

SpecParser == InitDefault /\ [][NextParser]_vars

\* How long the sensor command takes, in seconds, when it can be slow:
\* within the second, longer than the default period of 15 s, and longer
\* than two periods.
SlowBodies == {0, 20, 40}

TimingOutputs == {Vcgencmd(550), Vcgencmd(650), CannotRun}

\* The default configuration with a sensor command that can be slow.
NextTiming ==
    \/ Load
    \/ MakeInterval
    \/ AcquireGpio
    \/ Tick(TimingOutputs, MaxTicks, SlowBodies)

SpecTiming == InitDefault /\ [][NextTiming]_vars

\* ------------------------------------------------------------- properties

NTicks == Len(ticks)

\* Tick i obtained a reading (read_temperature returned Ok).
Succeeded(i) == ticks[i].read.tag = "Ok"

Reading(i) == ticks[i].read.val

OnThreshold == Unwrap(cfg).on_threshold

OffThreshold == Unwrap(cfg).off_threshold

InDeadBand(t) == FLe(OffThreshold, t) /\ FLe(t, OnThreshold)

RECURSIVE WritesUpTo(_)
\* The writes to the pin made by ticks 1..n, in order.
WritesUpTo(n) == IF n = 0 THEN <<>> ELSE WritesUpTo(n - 1) \o ticks[n].writes

\* The level the loop finds at tick i is the one tick i - 1 left, and the
\* pin holds what the last tick left.
LevelsChain ==
    /\ \A i \in 2..NTicks : ticks[i].before = ticks[i - 1].after
    /\ NTicks > 0 => fan_pin = ticks[NTicks].after

\* C1: on every tick with a reading t, under off_threshold < on_threshold,
\* the level after the tick is High if the level read back was Low and
\* t > on_threshold, Low if it was High and t < off_threshold, and the
\* level read back otherwise; a tick writes at most once.
C1_HysteresisStep ==
    /\ LevelsChain
    /\ \A i \in 1..NTicks :
        (Succeeded(i) /\ FLt(OffThreshold, OnThreshold)) =>
            /\ ticks[i].after =
                 (IF ticks[i].before = "Low" /\ FGt(Reading(i), OnThreshold)
                  THEN "High"
                  ELSE IF ticks[i].before = "High" /\ FLt(Reading(i), OffThreshold)
                  THEN "Low"
                  ELSE ticks[i].before)
            /\ Len(ticks[i].writes) <= 1
            /\ ticks[i].writes # <<>> => ticks[i].writes = <<ticks[i].after>>

\* A run that turned the fan on, held it in the dead band and turned it off.
C1_Witness ==
    /\ NTicks = 3
    /\ FLt(OffThreshold, OnThreshold)
    /\ \A i \in 1..3 : Succeeded(i)
    /\ ticks[1].before = "Low" /\ FGt(Reading(1), OnThreshold)
    /\ ticks[1].after = "High"
    /\ InDeadBand(Reading(2)) /\ ticks[2].after = "High"
    /\ FLt(Reading(3), OffThreshold) /\ ticks[3].after = "Low"

\* C2: a tick whose reading t has off_threshold <= t <= on_threshold, the
\* two equalities included, writes nothing and leaves the level as it was,
\* whatever that level.
C2_DeadBand ==
    \A i \in 1..NTicks :
        (Succeeded(i) /\ InDeadBand(Reading(i))) =>
            /\ ticks[i].writes = <<>>
            /\ ticks[i].after = ticks[i].before
            /\ (pc = "loop" /\ i = NTicks) => fan_pin = ticks[i].before

\* A reading equal to on_threshold found the fan off, and a reading equal to
\* off_threshold found it on.
C2_Witness ==
    /\ NTicks = 3
    /\ Succeeded(1) /\ Reading(1) = OnThreshold /\ ticks[1].before = "Low"
    /\ Succeeded(2) /\ FGt(Reading(2), OnThreshold)
    /\ Succeeded(3) /\ Reading(3) = OffThreshold /\ ticks[3].before = "High"
    /\ fan_pin = "High"

\* C3: every write changes the level (High is written only on Low, Low
\* only on High), so successive writes alternate; a reading above
\* on_threshold with the fan off writes High once on that tick; a reading
\* below off_threshold with the fan on writes Low once on that tick, and
\* the fan stays off while the following readings are in the dead band.
C3_ExactlyOnce ==
    /\ \A i \in 1..NTicks :
        /\ \A w \in 1..Len(ticks[i].writes) :
              /\ ticks[i].writes[w] # ticks[i].before
              /\ ticks[i].writes[w] = ticks[i].after
        /\ (Succeeded(i) /\ ticks[i].before = "Low"
                /\ FGt(Reading(i), OnThreshold))
              => ticks[i].writes = <<"High">> /\ ticks[i].after = "High"
        /\ (Succeeded(i) /\ ticks[i].before = "High"
                /\ FLt(Reading(i), OffThreshold))
              => /\ ticks[i].writes = <<"Low">> /\ ticks[i].after = "Low"
                 /\ \A j \in (i + 1)..NTicks :
                       (\A k \in (i + 1)..j :
                            Succeeded(k) /\ InDeadBand(Reading(k)))
                       => ticks[j].after = "Low" /\ ticks[j].writes = <<>>
    /\ LET ws == WritesUpTo(NTicks)
       IN  \A n \in 1..(Len(ws) - 1) : ws[n] # ws[n + 1]

\* The fan was on, was turned off, stayed off in the dead band and was
\* turned on again: two writes, Low then High.
C3_Witness ==
    /\ NTicks = 3
    /\ ticks[1].before = "High" /\ ticks[1].writes = <<"Low">>
    /\ Succeeded(2) /\ InDeadBand(Reading(2)) /\ ticks[2].after = "Low"
    /\ ticks[3].writes = <<"High">>
    /\ WritesUpTo(NTicks) = <<"Low", "High">>

\* The readings of a trace given in tenths, as the f32 values parsed.
TraceReadings(tr) == [i \in 1..Len(tr) |-> Fin(tr[i])]

HysteresisReadings == TraceReadings(HysteresisTrace)

DebounceReadings == TraceReadings(DebounceTrace)

\* The first n ticks read exactly the first n readings of rd.
Fed(rd, n) ==
    /\ n <= NTicks /\ n <= Len(rd)
    /\ \A i \in 1..n : ticks[i].read = Ok(rd[i])

DefaultThresholds ==
    /\ OnThreshold = DefaultConfig.on_threshold
    /\ OffThreshold = DefaultConfig.off_threshold

\* C4: with on_threshold 60 and off_threshold 50 and the fan off at the
\* start, the readings 65, 55, 65, 45, 65 leave the fan on, on, on, off,
\* on, and write three times: High at the first 65, Low at 45, High at
\* the last 65.
C4_HysteresisTrace ==
    \A n \in 1..NTicks :
        (DefaultThresholds /\ ticks[1].before = "Low" /\ Fed(HysteresisReadings, n))
        => /\ ticks[n].after = <<"High", "High", "High", "Low", "High">>[n]
           /\ ticks[n].writes =
                <<(<<"High">>), <<>>, <<>>, (<<"Low">>), (<<"High">>)>>[n]
           /\ n = Len(HysteresisTrace)
                => WritesUpTo(n) = <<"High", "Low", "High">> /\ fan_pin = "High"

\* The five readings were fed to a fan that was off at the start.
C4_Witness ==
    /\ NTicks = Len(HysteresisTrace)
    /\ DefaultThresholds
    /\ ticks[1].before = "Low"
    /\ Fed(HysteresisReadings, NTicks)
    /\ [i \in 1..NTicks |-> ticks[i].after]
         = <<"High", "High", "High", "Low", "High">>

\* The overheat lines tick i printed.
Alerts(i) == SelectSeq(ticks[i].events, LAMBDA e : e.ev = "overheat")

\* C6: with on_threshold 60 and max_change 5 and nothing recorded at the
\* start, the readings 61, 62, 63, 69, 58, 70 alert exactly at 61, 69 and
\* 70; and the first reading >= on_threshold after a reading below
\* on_threshold always alerts, whatever its size.
C6_DebouncerTrace ==
    /\ \A n \in 1..NTicks :
        (DefaultThresholds /\ Fed(DebounceReadings, n))
        => /\ ticks[1].last_before = None
           /\ Alerts(n) = IF n \in {1, 4, 6}
                           THEN <<Overheat(DebounceReadings[n])>>
                           ELSE <<>>
    /\ \A i \in 2..NTicks :
        (/\ Succeeded(i - 1) /\ FLt(Reading(i - 1), OnThreshold)
         /\ Succeeded(i) /\ FGe(Reading(i), OnThreshold))
        => Alerts(i) = <<Overheat(Reading(i))>>

\* The six readings were fed and the last one, after the drop to 58,
\* alerted although it is within max_change of the amount recorded at 69.
C6_Witness ==
    /\ NTicks = Len(DebounceTrace)
    /\ DefaultThresholds
    /\ Fed(DebounceReadings, NTicks)
    /\ ticks[4].last_after = Some(Fin(90))
    /\ ticks[5].last_after = None
    /\ Alerts(6) = <<Overheat(DebounceReadings[6])>>

\* The overheat amount of a reading: temp - on_threshold.
Amount(t) == FSub(t, OnThreshold)

\* C5: on every tick with a reading t, (1) t < on_threshold clears
\* last_overheat_amount and alerts nothing; (2) else, with nothing
\* recorded or with |last_overheat_amount - (t - on_threshold)| >
\* max_change, t - on_threshold is recorded and one alert carries t;
\* (3) otherwise nothing is alerted and last_overheat_amount is unchanged.
C5_DebouncerStep ==
    \A i \in 1..NTicks :
        Succeeded(i) =>
            LET t == Reading(i)
                last == ticks[i].last_before
            IN  IF FLt(t, OnThreshold)
                THEN ticks[i].last_after = None /\ Alerts(i) = <<>>
                ELSE IF \/ IsNone(last)
                        \/ FGt(FAbs(FSub(Unwrap(last), Amount(t))), max_change)
                THEN /\ ticks[i].last_after = Some(Amount(t))
                     /\ Alerts(i) = <<Overheat(t)>>
                ELSE /\ ticks[i].last_after = last
                     /\ Alerts(i) = <<>>

\* Every reading of ticks i + 1 .. j is within max_change of r.
StaysWithin(r, i, j) ==
    \A k \in (i + 1)..j :
        Succeeded(k) /\ FLe(FAbs(FSub(Reading(k), r)), max_change)

\* C7 as stated: after an alert for a reading r, no later tick alerts as
\* long as every reading since stays within max_change of r.
C7_SilentWithinStep ==
    \A i \in 1..NTicks : \A j \in (i + 1)..NTicks :
        (Succeeded(i) /\ Alerts(i) = <<Overheat(Reading(i))>>
            /\ StaysWithin(Reading(i), i, j))
        => Alerts(j) = <<>>

\* Every reading of ticks i + 1 .. j is >= on_threshold and its overheat
\* amount is within max_change of the overheat amount of r.
StaysOverheatedWithin(r, i, j) ==
    \A k \in (i + 1)..j :
        /\ Succeeded(k)
        /\ FGe(Reading(k), OnThreshold)
        /\ FLe(FAbs(FSub(Amount(r), Amount(Reading(k)))), max_change)

\* C7, amended: after an alert for a reading r, no later tick alerts as
\* long as every reading since is >= on_threshold and its overheat amount
\* stays within max_change of that of r; last_overheat_amount stays r's.
C7_SilentWhileOverheated ==
    \A i \in 1..NTicks : \A j \in (i + 1)..NTicks :
        (Succeeded(i) /\ Alerts(i) = <<Overheat(Reading(i))>>
            /\ StaysOverheatedWithin(Reading(i), i, j))
        => /\ Alerts(j) = <<>>
           /\ ticks[j].last_after = Some(Amount(Reading(i)))

\* An alert was followed by a reading whose amount differs by exactly
\* max_change and by a third reading, both silent.
C7_Witness ==
    /\ NTicks = 3
    /\ Succeeded(1) /\ Alerts(1) = <<Overheat(Reading(1))>>
    /\ StaysOverheatedWithin(Reading(1), 1, 3)
    /\ FAbs(FSub(Amount(Reading(1)), Amount(Reading(2)))) = max_change
    /\ Reading(3) # Reading(2)
    /\ Alerts(2) = <<>> /\ Alerts(3) = <<>>

\* The thresholds Config::load was given, when the file could be read.
Loaded == load_path(file).val

\* C8: validation fails with InvalidThresholdRange carrying the two
\* thresholds exactly when off_threshold >= on_threshold and succeeds for
\* every pair with off_threshold < on_threshold; hence the loop only runs
\* with a Config with off_threshold < on_threshold.
C8_ThresholdValidation ==
    /\ (pc # "load" /\ load_path(file).tag = "Ok") =>
          LET off == Loaded.off_threshold
              on == Loaded.on_threshold
          IN  /\ exit = Some(Err(InvalidThresholdRange(off, on))) <=> FGe(off, on)
              /\ FLt(off, on) => IsSome(cfg)
    /\ IsSome(cfg) => FLt(OffThreshold, OnThreshold)

\* C9: an interval setting of 0 or a non-numeric one resolves to the
\* default 15 and startup continues; a positive interval is kept; gpio_pin
\* and the thresholds are unchanged by validation; the period of the
\* scheduler is > 0 when the loop starts.
C9_IntervalFallback ==
    /\ (pc # "load" /\ file.present /\ IsU8(file.gpio_pin)
            /\ FLt(file.off_threshold, file.on_threshold)) =>
          /\ (file.interval = IntSetting(0) \/ file.interval.k # "int")
                => IsSome(cfg) /\ Unwrap(cfg).interval = DefaultConfig.interval
          /\ (file.interval.k = "int" /\ file.interval.v > 0)
                => IsSome(cfg) /\ Unwrap(cfg).interval = file.interval.v
          /\ IsSome(cfg) =>
                /\ Unwrap(cfg).gpio_pin = file.gpio_pin.v
                /\ Unwrap(cfg).on_threshold = file.on_threshold
                /\ Unwrap(cfg).off_threshold = file.off_threshold
    /\ pc = "loop" => IsSome(period) /\ Unwrap(period) > 0

\* main ended at startup with a configuration or pin error.
StartupError ==
    /\ IsSome(exit)
    /\ Unwrap(exit).tag = "Err"
    /\ Unwrap(exit).val.err \in {"InvalidThresholdRange", "ConfyError", "GpioError"}

\* C10: the configuration is loaded and validated before the pin is
\* acquired; when loading, validation or the acquisition fails, main ends
\* with that error and there is no tick, sensor read, write or alert.
C10_StartupOrdering ==
    /\ fan_pin # "none" =>
          /\ IsSome(cfg)
          /\ validated(Unwrap(cfg)) = Ok(Unwrap(cfg))
          /\ IsSome(period)
    /\ (pc # "load" /\ IsNone(cfg)) =>
          /\ exit = Some(load(file))
          /\ Unwrap(exit).val.err \in {"InvalidThresholdRange", "ConfyError"}
    /\ StartupError =>
          /\ pc = "exit"
          /\ ticks = <<>>
          /\ fan_pin = "none"
          /\ last_overheat_amount = None
    /\ NTicks > 0 => IsSome(cfg) /\ fan_pin # "none"

\* The configuration was accepted and the pin could not be acquired.
C10_Witness ==
    /\ IsSome(cfg)
    /\ exit = Some(Err(GpioError))
    /\ pc = "exit"
    /\ ticks = <<>>

\* Tick i ran the sensor command and got its output.
GotText(i) == ticks[i].cmd.io = "ok"

RawText(i) == ticks[i].cmd.stdout

\* C11: for every text the sensor command prints, of any length, the read
\* does not panic: it returns a number or ParseError carrying that text;
\* "temp=42.8'C\n" gives 42.8 and "garbage" gives ParseError("garbage").
C11_ParserTotality ==
    \A i \in 1..NTicks :
        GotText(i) =>
            /\ ticks[i].read # Panic
            /\ \/ ticks[i].read.tag = "Ok"
               \/ ticks[i].read = Err(ParseError(RawText(i)))
            /\ RawText(i) = Prefix \o <<"4", "2", ".", "8">> \o Suffix
                  => ticks[i].read = Ok(Fin(428))
            /\ RawText(i) = Garbage
                  => ticks[i].read = Err(ParseError(Garbage))

\* text is temp=<float>'C\n: the prefix, a text f32's parser accepts, the
\* suffix.
HasForm(text) ==
    /\ Len(text) >= Len(Prefix) + Len(Suffix)
    /\ SubSeq(text, 1, Len(Prefix)) = Prefix
    /\ SubSeq(text, Len(text) - Len(Suffix) + 1, Len(text)) = Suffix
    /\ IsSome(ParseF32(SubSeq(text, Len(Prefix) + 1, Len(text) - Len(Suffix))))

\* C12: a UTF-8 text long enough to have a 5-byte prefix and a 3-byte
\* suffix, both cut at character boundaries, gives a reading only if it
\* is temp=<float>'C\n; with another prefix, another suffix or a middle
\* that is not a number the read fails with ParseError carrying the text.
C12_ParserStrictness ==
    \A i \in 1..NTicks :
        (/\ GotText(i)
         /\ Len(RawText(i)) >= Len(Prefix) + Len(Suffix)
         /\ RawText(i) = from_utf8_lossy(RawText(i))
         /\ is_char_boundary(RawText(i), Len(Prefix))
         /\ is_char_boundary(RawText(i), Len(RawText(i)) - Len(Suffix))) =>
            /\ Succeeded(i) => HasForm(RawText(i))
            /\ ~HasForm(RawText(i))
                  => ticks[i].read = Err(ParseError(RawText(i)))

\* C13: a tick whose sensor read or parse fails writes nothing to the pin,
\* leaves last_overheat_amount as it was and prints no alert, and the loop
\* goes on: the level and the tracker the next tick finds are those the
\* tick before the failed one left.
C13_FailedTickSkipped ==
    \A i \in 1..NTicks :
        ~Succeeded(i) =>
            /\ ticks[i].writes = <<>>
            /\ ticks[i].events = <<>>
            /\ ticks[i].last_after = ticks[i].last_before
            /\ ticks[i].after = ticks[i].before
            /\ i = NTicks =>
                  /\ pc = "loop"
                  /\ fan_pin = ticks[i].before
                  /\ last_overheat_amount = ticks[i].last_before
            /\ i < NTicks =>
                  /\ ticks[i + 1].before = ticks[i].before
                  /\ ticks[i + 1].last_before = ticks[i].last_before

\* main has entered the loop: it does so when it has acquired the pin.
LoopStarted == fan_pin # "none"

\* C14: the loop has no terminal state: once it has started, main is in
\* the loop in every reachable state, waiting for or running a tick.
C14_NoTerminalState == LoopStarted => pc = "loop"

\* C15: a tick that drives the pin from Low to High prints, in that tick,
\* an event carrying the reading; a tick that drives it from High to Low
\* prints the fan-off event carrying the reading; a tick without a
\* High-to-Low write prints no fan-off event.
C15_TransitionEvents ==
    \A i \in 1..NTicks :
        Succeeded(i) =>
            /\ (ticks[i].before = "Low" /\ ticks[i].writes = <<"High">>)
                  => \E e \in 1..Len(ticks[i].events) :
                        ticks[i].events[e].temp = Reading(i)
            /\ (ticks[i].before = "High" /\ ticks[i].writes = <<"Low">>)
                  => \E e \in 1..Len(ticks[i].events) :
                        ticks[i].events[e] = FanOff(Reading(i))
            /\ (\E e \in 1..Len(ticks[i].events) :
                    ticks[i].events[e].ev = "fan_off")
                  => ticks[i].before = "High" /\ ticks[i].writes = <<"Low">>

\* Lines 136-144 with the two statements exchanged: the closure is called
\* before the if / else if on the pin.
DebouncerFirst(c, s, temp) == ControllerStep(c, DebouncerStep(c, s, temp), temp)

\* The state the body of tick i started from.
BodyStart(i) ==
    [level |-> ticks[i].before, last |-> ticks[i].last_before,
     writes |-> <<>>, events |-> <<>>]

EventSet(evs) == {evs[e] : e \in 1..Len(evs)}

\* States of the closure to run the controller against.
TrackerStates == {None, Some(Fin(0)), Some(Fin(100)), Some(NaN)}

\* C16: on every tick with a reading, the closure called before the
\* controller leaves the same level, the same writes, the same
\* last_overheat_amount and the same set of events as the tick did; the
\* alerts and last_overheat_amount of the tick are those the closure gives
\* from either level of the pin; and the level after the tick is the one
\* the controller gives from any state of the closure.
C16_Independence ==
    \A i \in 1..NTicks :
        Succeeded(i) =>
            /\ LET swapped == DebouncerFirst(Unwrap(cfg), BodyStart(i), Reading(i))
               IN  /\ swapped.level = ticks[i].after
                   /\ swapped.writes = ticks[i].writes
                   /\ swapped.last = ticks[i].last_after
                   /\ EventSet(swapped.events) = EventSet(ticks[i].events)
            /\ \A l \in {"Low", "High"} :
                  LET d == DebouncerStep(Unwrap(cfg),
                               [BodyStart(i) EXCEPT !.level = l], Reading(i))
                  IN  d.last = ticks[i].last_after /\ d.events = Alerts(i)
            /\ \A k \in TrackerStates :
                  LET h == ControllerStep(Unwrap(cfg),
                               [BodyStart(i) EXCEPT !.last = k], Reading(i))
                  IN  h.level = ticks[i].after /\ h.writes = ticks[i].writes

\* Both statements acted in one tick (a write and an alert), then the
\* controller alone (a write with the closure silent), then the closure
\* alone (an alert without a write).
C16_Witness ==
    /\ NTicks = 3
    /\ DefaultThresholds
    /\ \A i \in 1..3 : Succeeded(i)
    /\ ticks[1].writes = <<"Low">> /\ Alerts(1) = <<>>
    /\ ticks[2].writes = <<"High">> /\ Alerts(2) # <<>>
    /\ ticks[3].writes = <<>> /\ Alerts(3) # <<>>

\* C17: consecutive ticks are at least one period apart, also after a
\* tick whose sensor read took longer than the period, and a tick starts
\* only after the body of the tick before it has finished.
C17_FixedPeriod ==
    \A i \in 1..(NTicks - 1) :
        /\ ticks[i + 1].at - ticks[i].at >= Unwrap(period)
        /\ ticks[i + 1].at >= ticks[i].at + ticks[i].took

\* C18: with the configuration validated and from either level of the
\* pin, after every tick with a reading t the pin is High when
\* t > on_threshold and Low when t < off_threshold.
C18_LevelFollowsReading ==
    /\ pc = "loop" => validated(Unwrap(cfg)) = Ok(Unwrap(cfg))
    /\ \A i \in 1..NTicks :
        Succeeded(i) =>
            /\ FGt(Reading(i), OnThreshold) => ticks[i].after = "High"
            /\ FLt(Reading(i), OffThreshold) => ticks[i].after = "Low"
            /\ (i = NTicks /\ FGt(Reading(i), OnThreshold)) => fan_pin = "High"
            /\ (i = NTicks /\ FLt(Reading(i), OffThreshold)) => fan_pin = "Low"

\* A hot reading found the fan on and left it on, a cold one turned it
\* off, and a hot one turned it on again.
C18_Witness ==
    /\ NTicks = 3
    /\ \A i \in 1..3 : Succeeded(i)
    /\ ticks[1].before = "High" /\ FGt(Reading(1), OnThreshold)
    /\ ticks[1].after = "High"
    /\ FLt(Reading(2), OffThreshold) /\ ticks[2].after = "Low"
    /\ FGt(Reading(3), OnThreshold) /\ fan_pin = "High"

RECURSIVE LastAlert(_)
\* The reading of the most recent alert printed by ticks 1..i.
LastAlert(i) ==
    IF i = 0 THEN None
    ELSE IF Alerts(i) # <<>> THEN Some(Alerts(i)[1].temp)
    ELSE LastAlert(i - 1)

\* C19: last_overheat_amount has no value when the loop starts; after
\* every tick with a reading t it has a value exactly when
\* t >= on_threshold, and then it is the reading of the most recent alert
\* minus on_threshold, it is >= 0, and it is within max_change of
\* t - on_threshold.
C19_TrackerInvariant ==
    /\ (pc = "loop" /\ NTicks = 0) => last_overheat_amount = None
    /\ NTicks > 0 => ticks[1].last_before = None
    /\ \A i \in 1..NTicks :
        Succeeded(i) =>
            LET last == ticks[i].last_after
            IN  /\ IsSome(last) <=> FGe(Reading(i), OnThreshold)
                /\ IsSome(last) =>
                      /\ IsSome(LastAlert(i))
                      /\ Unwrap(last) = Amount(Unwrap(LastAlert(i)))
                      /\ FGe(Unwrap(last), Fin(0))
                      /\ FLe(FAbs(FSub(Unwrap(last), Amount(Reading(i)))),
                             max_change)

\* C20 as stated: no tick that prints an overheat alert ends with the pin
\* Low.
C20_AlertImpliesHigh ==
    \A i \in 1..NTicks :
        (Succeeded(i) /\ Alerts(i) # <<>>) => ticks[i].after = "High"

\* C20, amended: a tick that prints an overheat alert for a reading
\* t > on_threshold ends with the pin High, and after it the pin is High.
C20_AlertAboveImpliesHigh ==
    \A i \in 1..NTicks :
        (Succeeded(i) /\ Alerts(i) # <<>> /\ FGt(Reading(i), OnThreshold)) =>
            /\ ticks[i].after = "High"
            /\ i = NTicks => fan_pin = "High"

\* A reading equal to on_threshold alerted with the fan left off, and a
\* higher reading then alerted again on the tick that turned the fan on.
C20_Witness ==
    /\ NTicks = 2
    /\ Succeeded(1) /\ Reading(1) = OnThreshold
    /\ Alerts(1) # <<>> /\ ticks[1].after = "Low"
    /\ Succeeded(2) /\ FGt(Reading(2), OnThreshold)
    /\ Alerts(2) # <<>> /\ ticks[2].writes = <<"High">>

====
